---- MODULE Spec2Model ----
(***************************************************************************)
(* Model of model_development.ipynb: a notebook that trains a SageMaker    *)
(* object-detection job (od_model.fit), scrapes the validation mAP from    *)
(* the training log (plot_object_detection_log), deploys an endpoint       *)
(* (od_model.deploy), shows predictions (show_hb_prediction /              *)
(* visualize_detection) and deletes the endpoint (delete_endpoint).        *)
(*                                                                         *)
(* Three specifications share the module:                                  *)
(*   Spec       the notebook's cells, run in any order by the user;        *)
(*   SpecParse  plot_object_detection_log over a bounded log;              *)
(*   SpecRender visualize_detection over a bounded list of detections.     *)
(***************************************************************************)
EXTENDS Integers, Sequences, FiniteSets, TLC

VARIABLES
    \* ---- the notebook kernel and the platform (Spec)
    job,              \* status of od_model's latest training job on the platform
    fit_pc,           \* "idle", or "waiting" while the fit cell blocks the kernel
    object_detector,  \* "unbound" until the deploy cell binds the name
    endpoint,         \* the endpoint object_detector names: none/InService/Deleted
    shown,            \* predictions shown on the current endpoint (capped)
    env_bound,        \* are runtime, json and classes_df bound in the kernel
    last,             \* what the last finished cell run did
    \* ---- plot_object_detection_log (SpecParse)
    events,           \* cw_log["events"], each message a sequence of tokens
    ev_i,             \* number of events the for loop has consumed
    cur_msg,          \* msg, the message of the loop's latest turn (line 316)
    mAP,              \* the text extracted from it, if any (line 320)
    mAP_accs,         \* the list the loop appends to
    plot_pc,          \* "loop", "summarize", "done", "raised"
    plot_out,         \* what the function printed/plotted, or the exception
    \* ---- visualize_detection (SpecRender)
    dets,             \* the dets argument
    dets_in,          \* the caller's list as it was when the call began
    classes,          \* the classes argument
    thresh,           \* the thresh argument
    det_k,            \* number of detections the for loop has consumed
    num_detections,   \* the counter of line 413
    colors,           \* keys of the colors dict of line 412
    drawn,            \* rectangles added to the axes, in order
    labels,           \* texts added to the axes, in order
    vis_pc,           \* "loop", "done", "raised"
    vis_out           \* the printed count line, or the exception

flowVars   == <<job, fit_pc, object_detector, endpoint, shown, env_bound, last>>
parseVars  == <<events, ev_i, cur_msg, mAP, mAP_accs, plot_pc, plot_out>>
renderVars == <<dets, dets_in, classes, thresh, det_k, num_detections, colors,
                drawn, labels, vis_pc, vis_out>>
vars       == <<flowVars, parseVars, renderVars>>

(***************************************************************************)
(* Bounds.                                                                 *)
(***************************************************************************)
MaxShown  == 2
MaxEvents == 3
MaxDets   == 3
ImgWidth  == 20
ImgHeight == 10

\* the variables a specification does not use stay at these values
ParseIdle ==
    /\ events = <<>> /\ ev_i = 0 /\ mAP_accs = <<>>
    /\ cur_msg = <<>> /\ mAP = <<>>
    /\ plot_pc = "off" /\ plot_out = [kind |-> "none"]

RenderIdle ==
    /\ dets = <<>> /\ dets_in = <<>> /\ classes = <<>> /\ thresh = 0
    /\ det_k = 0 /\ num_detections = 0 /\ colors = {}
    /\ drawn = <<>> /\ labels = <<>> /\ vis_pc = "off"
    /\ vis_out = [kind |-> "none"]

FlowIdle ==
    /\ job = "none" /\ fit_pc = "off" /\ object_detector = "unbound"
    /\ endpoint = "none" /\ shown = 0 /\ env_bound = FALSE
    /\ last = [op |-> "none", before |-> "Configured", called |-> FALSE,
               outcome |-> "none"]

(***************************************************************************)
(* The notebook's cells.  The kernel runs one cell at a time; a cell that  *)
(* raises leaves the names it had not yet assigned as they were.  None of  *)
(* the cells tests what was run before it.                                 *)
(***************************************************************************)

\* The orchestrator state of the design, read off the kernel and the platform.
OrchState ==
    IF endpoint = "Deleted" THEN "CleanedUp"
    ELSE IF endpoint = "InService"
         THEN (IF shown > 0 THEN "Evaluated" ELSE "Deployed")
    ELSE CASE job = "none"       -> "Configured"
           [] job = "InProgress" -> "Monitoring"
           [] job = "Completed"  -> "Completed"
           [] OTHER              -> "Failed"

Ran(op, called, outcome) ==
    [op |-> op, before |-> OrchState, called |-> called, outcome |-> outcome]

\* od_model.fit(inputs=data_channels, logs=True): create the training job ...
FitSubmit ==
    /\ fit_pc = "idle"
    /\ job' = "InProgress"
    /\ fit_pc' = "waiting"
    /\ last' = Ran("fit", TRUE, "pending")
    /\ UNCHANGED <<object_detector, endpoint, shown, env_bound>>

\* A fit that gives up waiting after a time of its own and returns while the
\* job is still in progress.
FitReturnOnTimeout ==
    /\ fit_pc = "waiting"
    /\ fit_pc' = "idle"
    /\ last' = [last EXCEPT !.outcome =
                   CASE job = "Completed"  -> "ok"
                     [] job = "Failed"     -> "UnexpectedStatusException"
                     [] job = "InProgress" -> "TimeoutExceeded"
                     [] OTHER              -> "Stopped"]
    /\ UNCHANGED <<job, object_detector, endpoint, shown, env_bound>>

\* ... and block until the platform reports the job's final status.
FitReturn ==
    /\ fit_pc = "waiting"
    /\ job # "InProgress"
    /\ fit_pc' = "idle"
    /\ last' = [last EXCEPT !.outcome =
                   CASE job = "Completed" -> "ok"
                     [] job = "Failed"    -> "UnexpectedStatusException"
                     [] OTHER             -> "Stopped"]
    /\ UNCHANGED <<job, object_detector, endpoint, shown, env_bound>>

\* The platform ends the job on its own.
JobEnds ==
    /\ job = "InProgress"
    /\ \E s \in {"Completed", "Failed"} : job' = s
    /\ UNCHANGED <<fit_pc, object_detector, endpoint, shown, env_bound, last>>

\* max_run=360000: when the limit passes the platform terminates the job.
MaxRunElapsed ==
    /\ job = "InProgress"
    /\ job' = "Stopped"
    /\ UNCHANGED <<fit_pc, object_detector, endpoint, shown, env_bound, last>>

\* plot_object_detection_log(od_model, "..." + od_model._current_job_name)
FetchMetrics ==
    /\ fit_pc = "idle"
    /\ IF job = "none"
       THEN last' = Ran("fetch_metrics", FALSE, "TypeError")
       ELSE \E r \in {"ok", "ValueError"} :
                last' = Ran("fetch_metrics", TRUE, r)
    /\ UNCHANGED <<job, fit_pc, object_detector, endpoint, shown, env_bound>>

\* object_detector = od_model.deploy(initial_instance_count=1, ...)
Deploy ==
    /\ fit_pc = "idle"
    /\ \/ /\ job \in {"Completed", "Stopped"}
          /\ endpoint' = "InService"
          /\ object_detector' = "bound"
          /\ shown' = 0
          /\ last' = Ran("deploy", TRUE, "ok")
       \/ /\ last' = Ran("deploy", TRUE,
                         IF job \in {"Completed", "Stopped"}
                         THEN "DeployError" ELSE "ValueError")
          /\ UNCHANGED <<endpoint, object_detector, shown>>
    /\ UNCHANGED <<job, fit_pc, env_bound>>

\* An evaluate cell that a failed response makes drop the endpoint, and that
\* refuses to run once a prediction has been shown.
EvaluateOnce ==
    /\ fit_pc = "idle"
    /\ IF ~env_bound \/ object_detector = "unbound"
       THEN /\ last' = Ran("evaluate", FALSE, "NameError")
            /\ UNCHANGED <<shown, endpoint>>
       ELSE IF endpoint # "InService"
       THEN /\ last' = Ran("evaluate", TRUE, "ClientError")
            /\ UNCHANGED <<shown, endpoint>>
       ELSE IF shown > 0
       THEN /\ last' = Ran("evaluate", FALSE, "InvalidState")
            /\ UNCHANGED <<shown, endpoint>>
       ELSE \/ /\ last' = Ran("evaluate", TRUE, "ok")
               /\ shown' = IF shown < MaxShown THEN shown + 1 ELSE shown
               /\ UNCHANGED endpoint
            \/ /\ \E e \in {"TransportError", "MalformedResponse", "IndexError"} :
                      last' = Ran("evaluate", TRUE, e)
               /\ endpoint' = "Deleted"
               /\ UNCHANGED shown
    /\ UNCHANGED <<job, fit_pc, object_detector, env_bound>>

\* test_model() -> show_hb_prediction("hummingbird-1.jpg", object_detector.endpoint_name)
Evaluate ==
    /\ fit_pc = "idle"
    /\ IF ~env_bound \/ object_detector = "unbound"
       THEN /\ last' = Ran("evaluate", FALSE, "NameError")
            /\ UNCHANGED shown
       ELSE IF endpoint # "InService"
       THEN /\ last' = Ran("evaluate", TRUE, "ClientError")
            /\ UNCHANGED shown
       ELSE \/ /\ last' = Ran("evaluate", TRUE, "ok")
               /\ shown' = IF shown < MaxShown THEN shown + 1 ELSE shown
            \/ /\ \E e \in {"TransportError", "MalformedResponse", "IndexError"} :
                      last' = Ran("evaluate", TRUE, e)
               /\ UNCHANGED shown
    /\ UNCHANGED <<job, fit_pc, object_detector, endpoint, env_bound>>

\* sagemaker.Session().delete_endpoint(object_detector.endpoint_name)
Cleanup ==
    /\ fit_pc = "idle"
    /\ IF object_detector = "unbound"
       THEN /\ last' = Ran("cleanup", FALSE, "NameError")
            /\ UNCHANGED endpoint
       ELSE IF endpoint = "InService"
       THEN /\ last' = Ran("cleanup", TRUE, "ok")
            /\ endpoint' = "Deleted"
       ELSE /\ last' = Ran("cleanup", TRUE, "ClientError")
            /\ UNCHANGED endpoint
    /\ UNCHANGED <<job, fit_pc, object_detector, shown, env_bound>>

Init ==
    /\ job = "none"
    /\ fit_pc = "idle"
    /\ object_detector = "unbound"
    /\ endpoint = "none"
    /\ shown = 0
    /\ env_bound \in BOOLEAN
    /\ last = [op |-> "none", before |-> "Configured", called |-> FALSE,
               outcome |-> "none"]
    /\ ParseIdle
    /\ RenderIdle

Next ==
    \/ FitSubmit /\ UNCHANGED <<parseVars, renderVars>>
    \/ FitReturn /\ UNCHANGED <<parseVars, renderVars>>
    \/ JobEnds /\ UNCHANGED <<parseVars, renderVars>>
    \/ MaxRunElapsed /\ UNCHANGED <<parseVars, renderVars>>
    \/ FetchMetrics /\ UNCHANGED <<parseVars, renderVars>>
    \/ Deploy /\ UNCHANGED <<parseVars, renderVars>>
    \/ Evaluate /\ UNCHANGED <<parseVars, renderVars>>
    \/ Cleanup /\ UNCHANGED <<parseVars, renderVars>>

Spec == Init /\ [][Next]_vars

(***************************************************************************)
(* Claims about the cells (checked under Spec).                            *)
(***************************************************************************)

\* the predecessor states the design requires of each operation (evaluate is
\* taken as allowed from Evaluated too, as its repeatability requires)
Required(op) ==
    CASE op = "fit"           -> {"Configured"}
      [] op = "fetch_metrics" -> {"Completed"}
      [] op = "deploy"        -> {"Completed"}
      [] op = "evaluate"      -> {"Deployed", "Evaluated"}
      [] op = "cleanup"       -> {"Deployed", "Evaluated"}
      [] OTHER                -> {"Configured", "Submitted", "Monitoring",
                                  "Completed", "Failed", "Deployed",
                                  "Evaluated", "CleanedUp"}

Rank(st) ==
    CASE st = "Configured" -> 0
      [] st = "Submitted"  -> 1
      [] st = "Monitoring" -> 2
      [] st = "Completed"  -> 3
      [] st = "Failed"     -> 3
      [] st = "Deployed"   -> 4
      [] st = "Evaluated"  -> 5
      [] OTHER             -> 6

\* C1: an operation run outside its required predecessor state fails with
\* InvalidState and does not reach the external collaborator.
C1_IllegalOpFailsInvalidState ==
    (last.op # "none" /\ last.before \notin Required(last.op))
        => (last.outcome = "InvalidState" /\ ~last.called)

\* C2: cleanup is idempotent: a cleanup run when the endpoint is already
\* released succeeds and leaves the endpoint released.
C2_CleanupIdempotent ==
    (last.op = "cleanup" /\ last.before = "CleanedUp")
        => (last.outcome = "ok" /\ endpoint = "Deleted")

\* C3: no step takes the orchestrator state backward in the order
\* Configured, Submitted, Monitoring, {Completed, Failed}, Deployed,
\* Evaluated, CleanedUp, and CleanedUp is never left.
C3_StateOnlyMovesForward ==
    [][Rank(OrchState') >= Rank(OrchState)]_vars

C5_EvaluateRepeatable ==
    [][Evaluate =>
          /\ last'.outcome # "ok" =>
                 UNCHANGED <<job, fit_pc, object_detector, endpoint, shown>>
          /\ OrchState \in {"Deployed", "Evaluated"} =>
                 /\ last'.outcome # "InvalidState"
                 /\ OrchState' \in {"Deployed", "Evaluated"}
          /\ OrchState = "Evaluated" => last'.called]_vars

C5_Witness ==
    /\ last.op = "evaluate"
    /\ last.before = "Evaluated"
    /\ last.outcome = "MalformedResponse"
    /\ OrchState = "Evaluated"

(***************************************************************************)
(* plot_object_detection_log.  A message is a sequence of tokens: "M" is   *)
(* the text "validation mAP <score>=", which holds no parenthesis; "4" and *)
(* "5" are digits; "x" is any other character.                             *)
(***************************************************************************)
Digits == {"4", "5"}

Prefixes == {<<>>, <<"(", "5", ")">>}
Payloads == {<<"(", "4", ")">>, <<"(", "5", ")">>, <<"(", "x", ")">>, <<"x">>}

Messages ==
    {pre \o mid \o pay : pre \in Prefixes, mid \in {<<>>, <<"M">>},
                         pay \in Payloads}

Logs == UNION {[1..n -> Messages] : n \in 0..MaxEvents}

\* "validation mAP <score>=" in msg
HasMarker(msg) == \E p \in 1..Len(msg) : msg[p] = "M"

\* msg.find(t): the 0-based index of the first t, or -1
Find(msg, t) ==
    IF \E p \in 1..Len(msg) : msg[p] = t
    THEN (CHOOSE p \in 1..Len(msg) :
              msg[p] = t /\ \A q \in 1..(p - 1) : msg[q] # t) - 1
    ELSE -1

\* msg[a:b] for a >= 0: a negative b counts from the end, and the bounds are
\* clipped to the string
Slice(msg, a, b) ==
    LET n  == Len(msg)
        hi == IF b < 0 THEN (IF b + n < 0 THEN 0 ELSE b + n)
              ELSE (IF b > n THEN n ELSE b)
        lo == IF a > n THEN n ELSE a
    IN  IF lo >= hi THEN <<>> ELSE SubSeq(msg, lo + 1, hi)

\* does float(s) return (TRUE) or raise ValueError (FALSE)
IsFloat(s) == Len(s) > 0 /\ \A p \in 1..Len(s) : s[p] \in Digits

DigitVal(d) == IF d = "4" THEN 4 ELSE 5

RECURSIVE FloatOf(_)
FloatOf(s) ==
    IF s = <<>> THEN 0
    ELSE 10 * FloatOf(SubSeq(s, 1, Len(s) - 1)) + DigitVal(s[Len(s)])

\* lines 318-320.  With no ")" the slice ends one character before the end
\* of the message; when the message ends with the marker, what is cut is the
\* marker's last character, and the rest of the marker ("x") stays.
Extract(msg) ==
    LET num_start == Find(msg, "(")
        num_end   == Find(msg, ")")
        text      == Slice(msg, num_start + 1, num_end)
    IN  IF /\ num_end = -1
           /\ num_start + 1 < Len(msg)
           /\ msg[Len(msg)] = "M"
        THEN text \o <<"x">>
        ELSE text

RECURSIVE MaxOf(_)
MaxOf(xs) ==
    IF Len(xs) = 1 THEN xs[1]
    ELSE LET m == MaxOf(Tail(xs)) IN IF xs[1] >= m THEN xs[1] ELSE m

\* one turn of "for e in cw_log[\"events\"]"
PlotLoopStep ==
    /\ plot_pc = "loop"
    /\ ev_i < Len(events)
    /\ cur_msg' = events[ev_i + 1]
    /\ IF HasMarker(cur_msg')
       THEN /\ mAP' = Extract(cur_msg')
            /\ IF IsFloat(mAP')
               THEN /\ mAP_accs' = Append(mAP_accs, FloatOf(mAP'))
                    /\ ev_i' = ev_i + 1
                    /\ UNCHANGED <<plot_pc, plot_out>>
               ELSE /\ plot_pc' = "raised"
                    /\ plot_out' = [kind |-> "ValueError", at |-> "float"]
                    /\ UNCHANGED <<ev_i, mAP_accs>>
       ELSE /\ ev_i' = ev_i + 1
            /\ UNCHANGED <<mAP, mAP_accs, plot_pc, plot_out>>
    /\ UNCHANGED events

\* A summary that falls back to 0 when nothing was extracted.
PlotSummarizeDefault ==
    /\ plot_pc = "loop"
    /\ ev_i = Len(events)
    /\ plot_pc' = "done"
    /\ plot_out' = [kind |-> "plot",
                    max  |-> IF mAP_accs = <<>> THEN 0 ELSE MaxOf(mAP_accs),
                    xs   |-> [p \in 1..Len(mAP_accs) |-> p - 1],
                    ys   |-> mAP_accs]
    /\ UNCHANGED <<events, ev_i, cur_msg, mAP, mAP_accs>>

\* lines 323-333: print the maximum, plot range(len(mAP_accs)) against mAP_accs
PlotSummarize ==
    /\ plot_pc = "loop"
    /\ ev_i = Len(events)
    /\ IF mAP_accs = <<>>
       THEN /\ plot_pc' = "raised"
            /\ plot_out' = [kind |-> "ValueError", at |-> "max"]
       ELSE /\ plot_pc' = "done"
            /\ plot_out' = [kind |-> "plot",
                            max  |-> MaxOf(mAP_accs),
                            xs   |-> [p \in 1..Len(mAP_accs) |-> p - 1],
                            ys   |-> mAP_accs]
    /\ UNCHANGED <<events, ev_i, cur_msg, mAP, mAP_accs>>

InitParse ==
    /\ FlowIdle
    /\ RenderIdle
    /\ events \in Logs
    /\ ev_i = 0
    /\ cur_msg = <<>>
    /\ mAP = <<>>
    /\ mAP_accs = <<>>
    /\ plot_pc = "loop"
    /\ plot_out = [kind |-> "none"]

NextParse ==
    \/ PlotLoopStep /\ UNCHANGED <<flowVars, renderVars>>
    \/ PlotSummarize /\ UNCHANGED <<flowVars, renderVars>>

SpecParse == InitParse /\ [][NextParse]_vars

PlotFinished == plot_pc \in {"done", "raised"}

\* The marker grammar of the design: the marker, "(", a number, and the
\* next ")".
WellFormed(msg) ==
    \E p \in 1..Len(msg) :
        /\ msg[p] = "M"
        /\ p + 1 <= Len(msg) /\ msg[p + 1] = "("
        /\ \E q \in (p + 2)..Len(msg) :
              /\ msg[q] = ")"
              /\ \A r \in (p + 2)..(q - 1) : msg[r] # ")"
              /\ IsFloat(SubSeq(msg, p + 2, q - 1))

ValueOf(msg) ==
    LET p == CHOOSE p \in 1..Len(msg) : msg[p] = "M"
        q == CHOOSE q \in (p + 2)..Len(msg) :
                 msg[q] = ")" /\ \A r \in (p + 2)..(q - 1) : msg[r] # ")"
    IN  FloatOf(SubSeq(msg, p + 2, q - 1))

RECURSIVE WellFormedValues(_)
WellFormedValues(log) ==
    IF log = <<>> THEN <<>>
    ELSE LET rest == WellFormedValues(Tail(log)) IN
         IF WellFormed(Head(log)) THEN <<ValueOf(Head(log))>> \o rest ELSE rest

\* C6: parsing never aborts the stream: whatever the messages hold, the loop
\* consumes every one of them (the only failure left is the empty series).
C6_ParseNeverAborts ==
    plot_pc = "raised" => ev_i = Len(events)

\* C7: the samples produced are exactly the values of the well-formed marker
\* lines, in arrival order, numbered 0..n-1; nothing is produced only when
\* there is no such line.
C7_SamplesAreWellFormedValuesInOrder ==
    /\ plot_pc = "done" =>
           /\ plot_out.ys = WellFormedValues(events)
           /\ plot_out.xs = [p \in 1..Len(plot_out.ys) |-> p - 1]
    /\ plot_pc = "raised" => WellFormedValues(events) = <<>>

NoMarkerLine == \A p \in 1..Len(events) : ~HasMarker(events[p])

ClassIds   == {-3, -1, 0, 2}
Scores     == {3, 6, 9}
Thresholds == {4, 6}
Boxes      == {<<1, 2, 5, 7>>}
ClassLists == {<<>>, <<"a", "b">>}

Detections ==
    {<<c, sc>> \o b : c \in ClassIds, sc \in Scores, b \in Boxes}

DetLists == UNION {[1..n -> Detections] : n \in 0..MaxDets}

\* int(x * size) for x in tenths
Pixel(x, size) == (x * size) \div 10

\* classes[cls_id]: a negative index counts from the end; IndexError when
\* the index is outside -len..len-1
Index(lst, idx) ==
    IF idx >= 0 /\ idx < Len(lst)
    THEN [raised |-> FALSE, v |-> lst[idx + 1]]
    ELSE IF idx < 0 /\ idx >= 0 - Len(lst)
    THEN [raised |-> FALSE, v |-> lst[Len(lst) + idx + 1]]
    ELSE [raised |-> TRUE, v |-> "IndexError"]

\* str(cls_id)
Str(n) == ToString(n)

\* lines 435-437: the name defaults to str(cls_id); classes[cls_id] is
\* evaluated when the guard of line 436 is true
ClassName(cls_id) ==
    IF classes # <<>> /\ Len(classes) > cls_id
    THEN Index(classes, cls_id)
    ELSE [raised |-> FALSE, v |-> Str(cls_id)]

\* one turn of "for det in dets"
VisLoopStep ==
    /\ vis_pc = "loop"
    /\ det_k < Len(dets)
    /\ LET det    == dets[det_k + 1]
           cls_id == det[1]
           score  == det[2]
           xmin   == Pixel(det[3], ImgWidth)
           ymin   == Pixel(det[4], ImgHeight)
           xmax   == Pixel(det[5], ImgWidth)
           ymax   == Pixel(det[6], ImgHeight)
       IN  IF score < thresh
           THEN /\ det_k' = det_k + 1
                /\ UNCHANGED <<num_detections, colors, drawn, labels,
                               vis_pc, vis_out>>
           ELSE /\ num_detections' = num_detections + 1
                /\ colors' = colors \cup {cls_id}
                /\ drawn' = Append(drawn,
                                [cls |-> cls_id, x |-> xmin, y |-> ymin,
                                 w |-> xmax - xmin, h |-> ymax - ymin])
                /\ IF ClassName(cls_id).raised
                   THEN /\ vis_pc' = "raised"
                        /\ vis_out' = [kind |-> "IndexError"]
                        /\ UNCHANGED <<det_k, labels>>
                   ELSE /\ labels' = Append(labels,
                                [name |-> ClassName(cls_id).v, score |-> score])
                        /\ det_k' = det_k + 1
                        /\ UNCHANGED <<vis_pc, vis_out>>
    /\ UNCHANGED <<dets, dets_in, classes, thresh>>

\* line 448: print("Number of detections: " + str(num_detections))
VisFinish ==
    /\ vis_pc = "loop"
    /\ det_k = Len(dets)
    /\ vis_pc' = "done"
    /\ vis_out' = [kind |-> "count", n |-> num_detections]
    /\ UNCHANGED <<dets, dets_in, classes, thresh, det_k, num_detections,
                   colors, drawn, labels>>

InitRender ==
    /\ FlowIdle
    /\ ParseIdle
    /\ dets \in DetLists
    /\ dets_in = dets
    /\ classes \in ClassLists
    /\ thresh \in Thresholds
    /\ det_k = 0
    /\ num_detections = 0
    /\ colors = {}
    /\ drawn = <<>>
    /\ labels = <<>>
    /\ vis_pc = "loop"
    /\ vis_out = [kind |-> "none"]

NextRender ==
    \/ VisLoopStep /\ UNCHANGED <<flowVars, parseVars>>
    \/ VisFinish /\ UNCHANGED <<flowVars, parseVars>>

SpecRender == InitRender /\ [][NextRender]_vars

VisFinished == vis_pc \in {"done", "raised"}

RECURSIVE Kept(_, _)
Kept(ds, t) ==
    IF ds = <<>> THEN <<>>
    ELSE LET rest == Kept(Tail(ds), t) IN
         IF Head(ds)[2] >= t THEN <<Head(ds)>> \o rest ELSE rest

\* C9: for every list of detections and every threshold, render draws one
\* rectangle per detection with score >= threshold and no other, in input
\* order, reports a count equal to the number drawn, and leaves the input
\* detections as they were.
C9_RenderDrawsScoresAtLeastThreshold ==
    VisFinished =>
        /\ vis_pc = "done"
        /\ Len(drawn) = Len(Kept(dets_in, thresh))
        /\ \A p \in 1..Len(drawn) :
               drawn[p].cls = Kept(dets_in, thresh)[p][1]
        /\ vis_out = [kind |-> "count", n |-> Len(drawn)]
        /\ dets = dets_in

\* C10: a class id outside 0..len(class_names)-1 is labelled with the bare
\* id and raises nothing; a name of the list is used only for an id inside
\* that range.
C10_OutOfRangeClassIdFallsBack ==
    /\ vis_pc # "raised"
    /\ \A p \in 1..Len(labels) :
           labels[p].name =
               IF drawn[p].cls >= 0 /\ drawn[p].cls < Len(classes)
               THEN classes[drawn[p].cls + 1]
               ELSE Str(drawn[p].cls)

\* the whole marker of the design, "validation mAP <score>=(", followed
\* somewhere by a ")"
FullMarker(m) ==
    \E p \in 1..Len(m) :
        /\ m[p] = "M"
        /\ p + 1 <= Len(m) /\ m[p + 1] = "("
        /\ \E q \in (p + 2)..Len(m) : m[q] = ")"

\* the text between the marker's "(" and the first ")" after it
MarkerPayload(m) ==
    LET p == CHOOSE p \in 1..Len(m) :
                 /\ m[p] = "M"
                 /\ p + 1 <= Len(m) /\ m[p + 1] = "("
                 /\ \E q \in (p + 2)..Len(m) : m[q] = ")"
        q == CHOOSE q \in (p + 2)..Len(m) :
                 m[q] = ")" /\ \A r \in (p + 2)..(q - 1) : m[r] # ")"
    IN  SubSeq(m, p + 2, q - 1)

\* C11: for a message that holds the marker, the payload extracted is the
\* text between the "(" that ends the marker and the first ")" after it,
\* whatever parentheses the message holds elsewhere.
C11_PayloadIsTextAfterMarker ==
    FullMarker(cur_msg) => mAP = MarkerPayload(cur_msg)

====
